---- MODULE Spec2Model ----
(***************************************************************************)
(* busterm: scrape a bus stop's departure page, render it in the terminal  *)
(* (one shot or in a 30 second realtime loop) or serve it as JSON over     *)
(* GET /check_buses.                                                       *)
(*                                                                         *)
(* Strings are sequences of one-character strings, so that validation,     *)
(* number parsing, JSON encoding and format-string expansion are computed  *)
(* character by character as the Go code does.                             *)
(***************************************************************************)
EXTENDS Integers, Sequences, FiniteSets, TLC

VARIABLES
    pc,            \* control position of the process / of the function under study
    args,          \* parsed command line: [naptan, code, realtime, api, help]
    code,          \* stop code handed to checkCode (CLI <code>, or ?naptan= of
                   \* the request last answered)
    codeErr,       \* checkCode's result on it: "nil" or "invalid"
    doc,           \* HTML document handed to parse
    parsed,        \* parse's result
    timestring,    \* PrintBus argument
    doubledecker,  \* PrintBus argument
    now,           \* wall clock read by time.Now()
    printed,       \* PrintBus's result
    up,            \* what the upstream did with the last finished outbound request
    fetched,       \* getBuses's result for it
    resp,          \* last HTTP response of the /check_buses handler
    inflight,      \* requests whose handler is waiting on the upstream: at
                   \* "Do" in client.Do, at "body" reading the response body
    screen,        \* table last rendered on the terminal
    cycles,        \* completed realtime cycles
    exitCode       \* process exit status (-1 while running)

vars == <<pc, args, code, codeErr, doc, parsed, timestring, doubledecker, now,
          printed, up, fetched, resp, inflight, screen, cycles, exitCode>>

----------------------------------------------------------------------------
(* Bounds of the model.  Documents are bounded by their tables, their rows  *)
(* and their td cells in all; time strings by their length; minute counts  *)
(* by their magnitude.                                                     *)

MinCodeLen == 7
MaxCodeLen == 9
MaxTables == 2
MaxRows == 2
MaxCells == 4
MaxTimeLen == 5
MaxMinutes == 60
MaxCycles == 2
MaxInFlight == 2

----------------------------------------------------------------------------
(* Generic helpers on character sequences and Go integer arithmetic.       *)

SeqsUpTo(S, lo, hi) == UNION {[1..n -> S] : n \in lo..hi}

ContainsAny(s, chars) == \E i \in 1..Len(s) : s[i] \in chars

Digits == <<"0", "1", "2", "3", "4", "5", "6", "7", "8", "9">>

DigitSet == {Digits[i] : i \in 1..10}

DigitVal(c) == (CHOOSE i \in 1..10 : Digits[i] = c) - 1

AllDigits(s) == \A i \in 1..Len(s) : s[i] \in DigitSet

RECURSIVE DecVal(_)
DecVal(s) == IF s = <<>> THEN 0
             ELSE 10 * DecVal(SubSeq(s, 1, Len(s) - 1)) + DigitVal(s[Len(s)])

\* Go's integer division and remainder truncate toward zero.
TruncDiv(a, b) == IF a >= 0 THEN a \div b ELSE -((-a) \div b)

TruncRem(a, b) == a - b * TruncDiv(a, b)

RECURSIVE ItoaNat(_)
ItoaNat(n) == IF n < 10 THEN <<Digits[n + 1]>>
              ELSE ItoaNat(n \div 10) \o <<Digits[(n % 10) + 1]>>

\* strconv.Itoa, and fmt's %d.
Itoa(n) == IF n < 0 THEN <<"-">> \o ItoaNat(-n) ELSE ItoaNat(n)

\* strconv.Atoi with the error dropped: 0 on a syntax error.
Atoi(s) ==
    LET signed == s # <<>> /\ s[1] \in {"-", "+"}
        body == IF signed THEN Tail(s) ELSE s
    IN IF body = <<>> \/ ~AllDigits(body) THEN 0
       ELSE IF signed /\ s[1] = "-" THEN -DecVal(body) ELSE DecVal(body)

\* strconv.FormatBool.
FormatBool(b) == IF b THEN <<"t", "r", "u", "e">> ELSE <<"f", "a", "l", "s", "e">>

\* strings.Repeat for a count that is not negative.
Repeat(c, n) == [i \in 1..n |-> c]

----------------------------------------------------------------------------
(* checkCode                                                               *)

CodeLen == 8

\* The deny-list, one element per character ("BACKTICK" is the grave accent,
\* which a string of this notation cannot hold).
unwantedRunes ==
    {"a", "A", "b", "B", "c", "C", "d", "D", "e", "E", "f", "F", "g", "G",
     "h", "H", "i", "I", "j", "J", "k", "K", "l", "L", "m", "M", "n", "N",
     "o", "O", "p", "P", "q", "Q", "r", "R", "s", "S", "t", "T", "u", "U",
     "v", "V", "w", "W", "x", "X", "y", "Y", "z", "Z", ";", ":", "\\", "'",
     "\"", "{", "[", "}", "]", "|", "+", "=", "-", "_", ")", "(", "*", "&",
     "^", "%", "$", "#", "@", "!", "~", "BACKTICK", "<", ">", "?"}

checkCode(c) ==
    IF Len(c) # CodeLen \/ ContainsAny(c, unwantedRunes) THEN "invalid" ELSE "nil"

\* Stop codes tried: a digit, a letter and a punctuation mark, all ASCII
\* (one byte each, so len() is the number of characters).
CodeAlphabet == {"2", "x", "."}

Codes == SeqsUpTo(CodeAlphabet, MinCodeLen, MaxCodeLen)

UniformCodes == {[i \in 1..n |-> c] : c \in CodeAlphabet, n \in MinCodeLen..MaxCodeLen}

----------------------------------------------------------------------------
(* parse                                                                   *)
(* A document is the sequence of its tables, a table the sequence of its   *)
(* rows, a row the sequence of the texts of its td cells.                  *)

Yes == <<"Y", "e", "s">>

ZeroBus == [Service |-> 0, To |-> <<>>, Time |-> <<>>, DoubleDecker |-> FALSE]

\* Faulty variant of case 3: the flag set, not cleared, by the text "Yes".
LowFloorFlag_wrong(t) == t = Yes

\* case 3 of the switch: f starts true and is cleared by the text "Yes".
LowFloorFlag(t) == IF t = Yes THEN FALSE ELSE TRUE

\* The switch on the cell index x (0-based).
SwitchCell(bus, x, t) ==
    CASE x = 0 -> [bus EXCEPT !.Service = Atoi(t)]
      [] x = 1 -> [bus EXCEPT !.To = t]
      [] x = 2 -> [bus EXCEPT !.Time = t]
      [] x = 3 -> [bus EXCEPT !.DoubleDecker = LowFloorFlag(t)]
      [] OTHER -> bus

RECURSIVE EachCell(_, _, _)
EachCell(bus, cells, x) ==
    IF x >= Len(cells) THEN bus
    ELSE EachCell(SwitchCell(bus, x, cells[x + 1]), cells, x + 1)

RowBus(row) == EachCell(ZeroBus, row, 0)

\* gs.Find("table tr"): the rows of every table, in document order.
RECURSIVE AllRows(_)
AllRows(d) == IF d = <<>> THEN <<>> ELSE Head(d) \o AllRows(Tail(d))

\* buses[1:] panics (slice bounds out of range) on an empty slice.
parse(d) ==
    LET rows == AllRows(d)
        buses == [i \in 1..Len(rows) |-> RowBus(rows[i])]
    IN IF Len(buses) < 1 THEN [panic |-> TRUE, buses |-> <<>>]
       ELSE [panic |-> FALSE, buses |-> Tail(buses)]

\* Sequences of exactly r rows holding at most c cells in all.
RECURSIVE RowSeqs(_, _, _)
RowSeqs(texts, r, c) ==
    IF r = 0 THEN {<<>>}
    ELSE UNION {{<<row>> \o rest : row \in [1..k -> texts], rest \in RowSeqs(texts, r - 1, c - k)}
                : k \in 0..c}

\* The ways to cut a row sequence into exactly t consecutive tables.
RECURSIVE Splits(_, _)
Splits(rs, t) ==
    IF t = 0 THEN (IF rs = <<>> THEN {<<>>} ELSE {})
    ELSE UNION {{<<SubSeq(rs, 1, k)>> \o d : d \in Splits(SubSeq(rs, k + 1, Len(rs)), t - 1)}
                : k \in 0..Len(rs)}

\* Documents of at most maxT tables, maxR rows and maxC cells in all.
DocsOf(texts, maxT, maxR, maxC) ==
    UNION {Splits(rs, t) : rs \in UNION {RowSeqs(texts, r, maxC) : r \in 0..maxR},
                           t \in 0..maxT}

ParseTexts == {Yes, <<"1", "2">>}

ParseDocs == DocsOf(ParseTexts, MaxTables, MaxRows, MaxCells)

----------------------------------------------------------------------------
(* PrintBus                                                                *)
(* The clock is [year, month, day, hour, minute, second, off]: the local   *)
(* date and time of day, and the zone's offset east of UTC in seconds.     *)

BusGlyph == "U+1F68C"
VanGlyph == "U+1F690"
StopGlyph == "U+1F68F"

Due == <<"D", "u", "e">>

\* strings.Fields(timestring)[0]; the empty sequence stands for "no field",
\* where the index expression panics.
RECURSIVE DropSpaces(_)
DropSpaces(s) == IF s # <<>> /\ Head(s) = " " THEN DropSpaces(Tail(s)) ELSE s

RECURSIVE TakeField(_)
TakeField(s) == IF s = <<>> \/ Head(s) = " " THEN <<>> ELSE <<Head(s)>> \o TakeField(Tail(s))

FirstField(s) == TakeField(DropSpaces(s))

\* time.ParseDuration(tt + "m") in whole minutes, 0 when it returns an error
\* (the error is dropped).  Covers an optional sign and one run of digits
\* before the appended unit; the tokens drawn hold no fraction and no unit
\* letter of their own.
ParseDurationMinutes(s) ==
    LET signed == s # <<>> /\ s[1] \in {"-", "+"}
        body == IF signed THEN Tail(s) ELSE s
        digits == IF body = <<>> THEN <<>> ELSE SubSeq(body, 1, Len(body) - 1)
    IN IF body = <<>> \/ body[Len(body)] # "m" \/ digits = <<>> \/ ~AllDigits(digits) THEN 0
       ELSE IF signed /\ s[1] = "-" THEN -DecVal(digits) ELSE DecVal(digits)

\* time.Month's String method, which %v uses.
MonthName(m) ==
    CASE m = 1 -> <<"J", "a", "n", "u", "a", "r", "y">>
      [] m = 2 -> <<"F", "e", "b", "r", "u", "a", "r", "y">>
      [] m = 3 -> <<"M", "a", "r", "c", "h">>
      [] m = 4 -> <<"A", "p", "r", "i", "l">>
      [] m = 5 -> <<"M", "a", "y">>
      [] m = 6 -> <<"J", "u", "n", "e">>
      [] m = 7 -> <<"J", "u", "l", "y">>
      [] m = 8 -> <<"A", "u", "g", "u", "s", "t">>
      [] m = 9 -> <<"S", "e", "p", "t", "e", "m", "b", "e", "r">>
      [] m = 10 -> <<"O", "c", "t", "o", "b", "e", "r">>
      [] m = 11 -> <<"N", "o", "v", "e", "m", "b", "e", "r">>
      [] m = 12 -> <<"D", "e", "c", "e", "m", "b", "e", "r">>

\* The closure fmtdate: no specifier is chosen when month and day both have
\* two digits, and Sprintf then reports its three arguments as extra, each
\* under %v: the month by its name.
TwoDigitFrom == 10

fmtdate(n) ==
    LET y == Itoa(n.year)
        m == Itoa(n.month)
        d == Itoa(n.day)
    IN IF n.day < TwoDigitFrom /\ n.month < TwoDigitFrom THEN y \o <<"-", "0">> \o m \o <<"-", "0">> \o d
       ELSE IF n.day < TwoDigitFrom THEN y \o <<"-">> \o m \o <<"-", "0">> \o d
       ELSE IF n.month < TwoDigitFrom THEN y \o <<"-", "0">> \o m \o <<"-">> \o d
       ELSE <<"%", "!", "(", "E", "X", "T", "R", "A", " ", "i", "n", "t", "=">> \o y
            \o <<",", " ", "t", "i", "m", "e", ".", "M", "o", "n", "t", "h", "=">>
            \o MonthName(n.month)
            \o <<",", " ", "i", "n", "t", "=">> \o d \o <<")">>

DaysIn(y, m) ==
    IF m = 2 THEN (IF y % 4 = 0 /\ (y % 100 # 0 \/ y % 400 = 0) THEN 29 ELSE 28)
    ELSE IF m \in {4, 6, 9, 11} THEN 30 ELSE 31

RECURSIVE DaysBefore(_, _)
DaysBefore(y, m) == IF m <= 1 THEN 0 ELSE DaysBefore(y, m - 1) + DaysIn(y, m - 1)

\* time.Parse("2006-01-02 15:04", v): four year digits, two month digits, two
\* day digits, one or two hour digits, two minute digits, nothing after.
TimeParse(v) ==
    LET isD(i) == i <= Len(v) /\ v[i] \in DigitSet
        lit(i, c) == i <= Len(v) /\ v[i] = c
        hl == IF isD(13) THEN 2 ELSE 1
        num(i, k) == DecVal(SubSeq(v, i, i + k - 1))
        shape == /\ isD(1) /\ isD(2) /\ isD(3) /\ isD(4) /\ lit(5, "-")
                 /\ isD(6) /\ isD(7) /\ lit(8, "-")
                 /\ isD(9) /\ isD(10) /\ lit(11, " ")
                 /\ isD(12) /\ lit(12 + hl, ":")
                 /\ isD(13 + hl) /\ isD(14 + hl) /\ Len(v) = 14 + hl
        fail == [ok |-> FALSE, year |-> 1, month |-> 1, day |-> 1, hour |-> 0, minute |-> 0]
    IN IF ~shape THEN fail
       ELSE LET t == [ok |-> TRUE, year |-> num(1, 4), month |-> num(6, 2), day |-> num(9, 2),
                      hour |-> num(12, hl), minute |-> num(13 + hl, 2)]
            IN IF /\ t.month \in 1..12 /\ t.day \in 1..DaysIn(t.year, t.month)
                  /\ t.hour < 24 /\ t.minute < 60
               THEN t ELSE fail

\* convtime.Sub(now) in whole hours when convtime is the zero Time (the parse
\* failed): Sub saturates at the minimum Duration, -2^63 ns.
MinDurationHours == -2562047

HoursUnit == 12
MinutesUnit == 5

\* int(convtime.Sub(now).Hours()) for the parsed wall-clock time, which
\* time.Parse places in UTC, against the local clock n.
SubHours(t, n) ==
    IF ~t.ok THEN MinDurationHours
    ELSE LET days == (t.year - n.year) * 365 + (DaysBefore(t.year, t.month) + t.day)
                     - (DaysBefore(n.year, n.month) + n.day)
             secs == days * 86400 + (t.hour * 3600 + t.minute * 60)
                     - (n.hour * 3600 + n.minute * 60 + n.second) + n.off
         IN TruncDiv(secs, 3600)

\* Faulty variant of the test below: roads = 0 not taken as minimal.
MinimalBranch_strict(roads) == roads < 0

\* "Is the bus Due? or is the time less than 5 minutes?"
MinimalBranch(roads) == roads <= 0

PrintBus(ts, dd, n) ==
    LET tt == FirstField(ts)
        bus == IF dd THEN VanGlyph ELSE BusGlyph
        colon == ContainsAny(tt, {":"})
        unit == IF colon THEN HoursUnit ELSE MinutesUnit
        roads == IF unit = MinutesUnit
                 THEN TruncDiv(ParseDurationMinutes(tt \o <<"m">>), unit)
                 ELSE TruncRem(SubHours(TimeParse(fmtdate(n) \o <<" ">> \o tt), n), unit)
    IN IF tt = <<>> THEN [panic |-> TRUE, unit |-> 0, roads |-> 0, out |-> <<>>]
       ELSE IF MinimalBranch(roads)
       THEN [panic |-> FALSE, unit |-> unit, roads |-> roads,
             out |-> <<"_">> \o Repeat("_", 0) \o <<bus>> \o Repeat("_", unit) \o <<"\r">>]
       ELSE IF colon
       THEN [panic |-> FALSE, unit |-> unit, roads |-> roads,
             out |-> <<"_">> \o Repeat("_", roads) \o <<bus>> \o Repeat("_", unit) \o <<"\r">>]
       ELSE [panic |-> FALSE, unit |-> unit, roads |-> roads,
             out |-> <<"_", StopGlyph>> \o Repeat("_", roads) \o <<bus>> \o Repeat("_", unit) \o <<"\r">>]

TimeChars == {"1", "5", ":", "-", " "}

MinuteTexts == [n \in (-MaxMinutes)..MaxMinutes |-> Itoa(n)]

TimeStrings ==
    SeqsUpTo(TimeChars, 0, MaxTimeLen)
    \cup {MinuteTexts[n] : n \in (-MaxMinutes)..MaxMinutes}
    \cup {Due, <<"1", "4", ":", "3", "2">>, <<"9", " ", "m", "i", "n", "s">>}

Nows ==
    [year : {2026}, month : {9, 10}, day : {9, 10}, hour : {13}, minute : {15},
     second : {0, 30}, off : {0, 3600}]

----------------------------------------------------------------------------
(* getBuses                                                                *)
(* The upstream's part in one outbound request: sent is false when         *)
(* client.Do returns an error; readable is false when reading the body     *)
(* of a 200 response fails; doc is the page otherwise.                     *)

StatusOK == 200

\* http.NewRequest fails only on a malformed URL; the stop codes drawn hold
\* no control byte, so its error is nil.
NewRequestErr(ref) == "nil"

getBuses(ref, u) ==
    IF ~u.sent
    THEN [called |-> TRUE, panic |-> FALSE, buses |-> <<>>, err |-> NewRequestErr(ref)]
    ELSE IF u.status # StatusOK
    THEN [called |-> TRUE, panic |-> FALSE, buses |-> <<>>, err |-> "status"]
    ELSE IF ~u.readable
    THEN [called |-> TRUE, panic |-> FALSE, buses |-> <<>>, err |-> "read"]
    ELSE LET p == parse(u.doc)
         IN [called |-> TRUE, panic |-> p.panic, buses |-> p.buses, err |-> "nil"]

ProgMaxTables == 1
ProgMaxRows == 2
ProgMaxCells == 4

ProgTexts == {<<"7">>, <<"%">>}

ProgDocs == DocsOf(ProgTexts, ProgMaxTables, ProgMaxRows, ProgMaxCells)

Ups ==
    {[sent |-> FALSE, status |-> 0, readable |-> FALSE, doc |-> <<>>]}
    \cup {[sent |-> TRUE, status |-> s, readable |-> FALSE, doc |-> <<>>] : s \in {404, 503}}
    \cup {[sent |-> TRUE, status |-> StatusOK, readable |-> FALSE, doc |-> <<>>]}
    \cup {[sent |-> TRUE, status |-> StatusOK, readable |-> TRUE, doc |-> d] : d \in ProgDocs}

----------------------------------------------------------------------------
(* The /check_buses handler                                                *)

unable ==
    <<"{", "\"", "e", "r", "r", "o", "r", "\"", ":", "\"", "u", "n", "a", "b", "l", "e",
      " ", "t", "o", " ", "f", "e", "t", "c", "h", " ", "b", "u", "s", "e", "s", ".",
      "\"", "}">>

invalidNaptan ==
    <<"{", "\"", "e", "r", "r", "o", "r", "\"", ":", "\"", "N", "a", "p", "T", "A", "N",
      " ", "c", "o", "d", "e", " ", "m", "u", "s", "t", " ", "b", "e", " ", "a", "n", " ",
      "8", " ", "d", "i", "g", "i", "t", " ", "n", "u", "m", "b", "e", "r", ".", "\"", "}">>

\* encoding/json's string encoding (HTML-safe escaping is on by default).
jsonChar(c) ==
    CASE c = "\"" -> <<"\\", "\"">>
      [] c = "\\" -> <<"\\", "\\">>
      [] c = "<" -> <<"\\", "u", "0", "0", "3", "c">>
      [] c = ">" -> <<"\\", "u", "0", "0", "3", "e">>
      [] c = "&" -> <<"\\", "u", "0", "0", "2", "6">>
      [] c = "\n" -> <<"\\", "n">>
      [] c = "\r" -> <<"\\", "r">>
      [] c = "\t" -> <<"\\", "t">>
      [] OTHER -> <<c>>

RECURSIVE jsonEscape(_)
jsonEscape(s) == IF s = <<>> THEN <<>> ELSE jsonChar(Head(s)) \o jsonEscape(Tail(s))

jsonString(s) == <<"\"">> \o jsonEscape(s) \o <<"\"">>

\* One Bus under its struct tags bus, to, time, double_decker.
jsonBus(b) ==
    <<"{", "\"", "b", "u", "s", "\"", ":">> \o Itoa(b.Service)
    \o <<",", "\"", "t", "o", "\"", ":">> \o jsonString(b.To)
    \o <<",", "\"", "t", "i", "m", "e", "\"", ":">> \o jsonString(b.Time)
    \o <<",", "\"", "d", "o", "u", "b", "l", "e", "_", "d", "e", "c", "k", "e", "r", "\"", ":">>
    \o FormatBool(b.DoubleDecker) \o <<"}">>

RECURSIVE jsonJoin(_)
jsonJoin(bs) ==
    IF bs = <<>> THEN <<>>
    ELSE IF Len(bs) = 1 THEN jsonBus(bs[1])
    ELSE jsonBus(Head(bs)) \o <<",">> \o jsonJoin(Tail(bs))

\* json.Marshal of a non-nil []Bus.
jsonMarshal(bs) == <<"[">> \o jsonJoin(bs) \o <<"]">>

\* fmt.Fprintf(w, format) with no operands: text is copied, "%%" gives "%",
\* any other verb reports its missing operand, a "%" with no verb reports
\* that.  Flags, a width and a precision before the verb are consumed
\* (argument indexes "[n]" and "*" are not covered).
FmtFlags == {"#", "0", "+", "-", " "}

RECURSIVE DropWhile(_, _)
DropWhile(s, chars) == IF s # <<>> /\ Head(s) \in chars THEN DropWhile(Tail(s), chars) ELSE s

AfterSpec(s) ==
    LET w == DropWhile(DropWhile(s, FmtFlags), DigitSet)
    IN IF w # <<>> /\ Head(w) = "." THEN DropWhile(Tail(w), DigitSet) ELSE w

RECURSIVE Fprintf(_)
Fprintf(format) ==
    IF format = <<>> THEN <<>>
    ELSE IF Head(format) # "%" THEN <<Head(format)>> \o Fprintf(Tail(format))
    ELSE LET rest == AfterSpec(Tail(format))
         IN IF rest = <<>> THEN <<"%", "!", "(", "N", "O", "V", "E", "R", "B", ")">>
            ELSE IF Head(rest) = "%" THEN <<"%">> \o Fprintf(Tail(rest))
            ELSE <<"%", "!", Head(rest), "(", "M", "I", "S", "S", "I", "N", "G", ")">>
                 \o Fprintf(Tail(rest))

BadRequest == 400

\* The handler after the stop code passed validation; a panic in the handler
\* goroutine is recovered by net/http, which drops the connection without a
\* response.
HandleFetched(r) ==
    IF r.panic THEN [served |-> TRUE, written |-> FALSE, status |-> 0, body |-> <<>>]
    ELSE IF r.err # "nil"
    THEN [served |-> TRUE, written |-> TRUE, status |-> BadRequest, body |-> Fprintf(unable)]
    ELSE [served |-> TRUE, written |-> TRUE, status |-> StatusOK,
          body |-> Fprintf(jsonMarshal(r.buses))]

----------------------------------------------------------------------------
(* PrintTable and the clock                                                *)

Warn(s) == <<"<", "w", "a", "r", "n", ">">> \o s \o <<"<", "r", "e", "s", "e", "t", ">">>

\* The rows handed to the table; rendering panics when PrintBus does.
PrintTable(bs, ref, n) ==
    LET cell(b) == PrintBus(b.Time, b.DoubleDecker, n)
    IN IF \E i \in 1..Len(bs) : cell(bs[i]).panic
       THEN [panic |-> TRUE, ref |-> ref, rows |-> <<>>]
       ELSE [panic |-> FALSE, ref |-> ref,
             rows |-> [i \in 1..Len(bs) |->
                        <<Itoa(bs[i].Service), Warn(bs[i].To), bs[i].Time,
                          cell(bs[i]).out, FormatBool(bs[i].DoubleDecker)>>]]

SleepSeconds == 30

\* The clock after time.Sleep (within one day).
Advance(n, secs) ==
    LET total == n.hour * 3600 + n.minute * 60 + n.second + secs
    IN [n EXCEPT !.hour = total \div 3600, !.minute = (total % 3600) \div 60,
                 !.second = total % 60]

\* Clocks the program is started at.
ProgNows == {n \in Nows : n.day = 10 /\ n.second = 0 /\ n.off = 0}

\* Command lines the usage text admits: -n <code> with or without -t, -a,
\* or -h.
Args ==
    {[naptan |-> TRUE, code |-> c, realtime |-> t, api |-> FALSE, help |-> FALSE]
        : c \in UniformCodes, t \in BOOLEAN}
    \cup {[naptan |-> FALSE, code |-> <<>>, realtime |-> FALSE, api |-> TRUE, help |-> FALSE],
          [naptan |-> FALSE, code |-> <<>>, realtime |-> FALSE, api |-> FALSE, help |-> TRUE]}

ExitFailure == 1
ExitPanic == 2

----------------------------------------------------------------------------
(* Values the variables hold before the code has written them.             *)

NoArgs == [naptan |-> FALSE, code |-> <<>>, realtime |-> FALSE, api |-> FALSE, help |-> FALSE]
NoParsed == [panic |-> FALSE, buses |-> <<>>]
NoNow == [year |-> 0, month |-> 0, day |-> 0, hour |-> 0, minute |-> 0, second |-> 0, off |-> 0]
NoPrinted == [panic |-> FALSE, unit |-> 0, roads |-> 0, out |-> <<>>]
NoUp == [sent |-> FALSE, status |-> 0, readable |-> FALSE, doc |-> <<>>]
NoFetched == [called |-> FALSE, panic |-> FALSE, buses |-> <<>>, err |-> "nil"]
NoResp == [served |-> FALSE, written |-> FALSE, status |-> 0, body |-> <<>>]
NoScreen == [ref |-> <<>>, rows |-> <<>>]

----------------------------------------------------------------------------
(* checkCode on its own.                                                   *)

InitCheckCode ==
    /\ pc = "checkCode"
    /\ code \in Codes
    /\ codeErr = "nil"
    /\ args = NoArgs /\ doc = <<>> /\ parsed = NoParsed
    /\ timestring = <<>> /\ doubledecker = FALSE /\ now = NoNow /\ printed = NoPrinted
    /\ up = NoUp /\ fetched = NoFetched /\ resp = NoResp /\ screen = NoScreen
    /\ inflight = <<>> /\ cycles = 0 /\ exitCode = -1

CheckCodeCall ==
    /\ pc = "checkCode"
    /\ codeErr' = checkCode(code)
    /\ pc' = "checked"
    /\ UNCHANGED <<args, code, doc, parsed, timestring, doubledecker, now, printed,
                   up, fetched, resp, inflight, screen, cycles, exitCode>>

SpecCheckCode == InitCheckCode /\ [][CheckCodeCall]_vars

----------------------------------------------------------------------------
(* parse on its own.                                                       *)

InitParse ==
    /\ pc = "parse"
    /\ doc \in ParseDocs
    /\ parsed = NoParsed
    /\ args = NoArgs /\ code = <<>> /\ codeErr = "nil"
    /\ timestring = <<>> /\ doubledecker = FALSE /\ now = NoNow /\ printed = NoPrinted
    /\ up = NoUp /\ fetched = NoFetched /\ resp = NoResp /\ screen = NoScreen
    /\ inflight = <<>> /\ cycles = 0 /\ exitCode = -1

ParseCall ==
    /\ pc = "parse"
    /\ parsed' = parse(doc)
    /\ pc' = "parsed"
    /\ UNCHANGED <<args, code, codeErr, doc, timestring, doubledecker, now, printed,
                   up, fetched, resp, inflight, screen, cycles, exitCode>>

SpecParse == InitParse /\ [][ParseCall]_vars

----------------------------------------------------------------------------
(* PrintBus on its own.                                                    *)

InitPrintBus ==
    /\ pc = "PrintBus"
    /\ timestring \in TimeStrings
    /\ doubledecker \in BOOLEAN
    /\ now \in Nows
    /\ printed = NoPrinted
    /\ args = NoArgs /\ code = <<>> /\ codeErr = "nil" /\ doc = <<>> /\ parsed = NoParsed
    /\ up = NoUp /\ fetched = NoFetched /\ resp = NoResp /\ screen = NoScreen
    /\ inflight = <<>> /\ cycles = 0 /\ exitCode = -1

PrintBusCall ==
    /\ pc = "PrintBus"
    /\ printed' = PrintBus(timestring, doubledecker, now)
    /\ pc' = "printedBus"
    /\ UNCHANGED <<args, code, codeErr, doc, parsed, timestring, doubledecker, now,
                   up, fetched, resp, inflight, screen, cycles, exitCode>>

SpecPrintBus == InitPrintBus /\ [][PrintBusCall]_vars

----------------------------------------------------------------------------
(* The program: main, the realtime loop and the API server.                *)

Init ==
    /\ pc = "start"
    /\ args \in Args
    /\ now \in ProgNows
    /\ code = <<>> /\ codeErr = "nil" /\ doc = <<>> /\ parsed = NoParsed
    /\ timestring = <<>> /\ doubledecker = FALSE /\ printed = NoPrinted
    /\ up = NoUp /\ fetched = NoFetched /\ resp = NoResp /\ screen = NoScreen
    /\ inflight = <<>> /\ cycles = 0 /\ exitCode = -1

\* main up to its first outbound request: docopt answers -h with the usage
\* text and status 0; -n validates the code and exits with status 1 when it
\* is refused; -a starts the server.
Start ==
    /\ pc = "start"
    /\ IF args.help
       THEN /\ pc' = "exited" /\ exitCode' = 0
            /\ UNCHANGED <<code, codeErr>>
       ELSE IF args.naptan
       THEN /\ code' = args.code
            /\ codeErr' = checkCode(args.code)
            /\ IF checkCode(args.code) # "nil"
               THEN pc' = "exited" /\ exitCode' = ExitFailure
               ELSE pc' = (IF args.realtime THEN "loop" ELSE "once") /\ UNCHANGED exitCode
       ELSE /\ pc' = "serving"
            /\ UNCHANGED <<code, codeErr, exitCode>>
    /\ UNCHANGED <<args, doc, parsed, timestring, doubledecker, now, printed,
                   up, fetched, resp, inflight, screen, cycles>>

\* getBuses, the error exit and PrintTable, as the one-shot path and the
\* loop body both run them; next is the position after a rendered table.
FetchAndRender(u, next, nextExit) ==
    LET r == getBuses(code, u)
        t == PrintTable(r.buses, code, now)
    IN /\ up' = u
       /\ fetched' = r
       /\ IF r.panic
          THEN pc' = "exited" /\ exitCode' = ExitPanic /\ UNCHANGED screen
          ELSE IF r.err # "nil"
          THEN pc' = "exited" /\ exitCode' = ExitFailure /\ UNCHANGED screen
          ELSE IF t.panic
          THEN pc' = "exited" /\ exitCode' = ExitPanic /\ UNCHANGED screen
          ELSE pc' = next /\ exitCode' = nextExit /\ screen' = [ref |-> t.ref, rows |-> t.rows]

\* One-shot: fetch, render, return from main.
Once ==
    /\ pc = "once"
    /\ \E u \in Ups : FetchAndRender(u, "exited", 0)
    /\ UNCHANGED <<args, code, codeErr, doc, parsed, timestring, doubledecker, now,
                   printed, resp, inflight, cycles>>

\* One pass of the realtime loop up to time.Sleep.
Cycle ==
    /\ pc = "loop"
    /\ \E u \in Ups : FetchAndRender(u, "sleep", -1)
    /\ UNCHANGED <<args, code, codeErr, doc, parsed, timestring, doubledecker, now,
                   printed, resp, inflight, cycles>>

\* time.Sleep(30 * time.Second) returns and the loop body starts over; the
\* loop's buses and err go out of scope.
Sleep ==
    /\ pc = "sleep"
    /\ cycles < MaxCycles
    /\ now' = Advance(now, SleepSeconds)
    /\ cycles' = cycles + 1
    /\ pc' = "loop"
    /\ up' = NoUp /\ fetched' = NoFetched
    /\ UNCHANGED <<args, code, codeErr, doc, parsed, timestring, doubledecker,
                   printed, resp, inflight, screen, exitCode>>

\* A request to /check_buses?naptan=c arrives and its handler, in a goroutine
\* of its own, validates c: a refused code is answered at once; otherwise
\* the handler calls getBuses and waits in client.Do, while other requests
\* are served.
RemoveAt(q, i) == SubSeq(q, 1, i - 1) \o SubSeq(q, i + 1, Len(q))

\* Outcomes of client.Do that end getBuses there: a transport failure or a
\* status other than 200. After a 200 getBuses goes on to read the body.
EndsAtDo(u) == ~u.sent \/ u.status # StatusOK

HandlerArrive ==
    /\ pc = "serving"
    /\ \E c \in UniformCodes :
        IF checkCode(c) # "nil"
        THEN /\ code' = c
             /\ codeErr' = checkCode(c)
             /\ resp' = [served |-> TRUE, written |-> TRUE, status |-> BadRequest,
                         body |-> Fprintf(invalidNaptan)]
             /\ up' = NoUp /\ fetched' = NoFetched
             /\ UNCHANGED inflight
        ELSE /\ Len(inflight) < MaxInFlight
             /\ inflight' = Append(inflight, [code |-> c, err |-> checkCode(c), at |-> "Do"])
             /\ UNCHANGED <<code, codeErr, up, fetched, resp>>
    /\ UNCHANGED <<pc, args, doc, parsed, timestring, doubledecker, now, printed,
                   screen, cycles, exitCode>>

\* client.Do returns to one waiting handler. On a transport failure or a
\* status other than 200 getBuses returns and the handler answers; on a 200
\* the handler goes on to wait for the body in NewDocumentFromReader.
HandlerDo ==
    /\ pc = "serving"
    /\ \E i \in 1..Len(inflight) :
        /\ inflight[i].at = "Do"
        /\ \/ \E u \in {v \in Ups : EndsAtDo(v)} :
                /\ code' = inflight[i].code
                /\ codeErr' = inflight[i].err
                /\ up' = u
                /\ fetched' = getBuses(inflight[i].code, u)
                /\ resp' = HandleFetched(getBuses(inflight[i].code, u))
                /\ inflight' = RemoveAt(inflight, i)
           \/ /\ inflight' = [inflight EXCEPT ![i].at = "body"]
              /\ UNCHANGED <<code, codeErr, up, fetched, resp>>
    /\ UNCHANGED <<pc, args, doc, parsed, timestring, doubledecker, now, printed,
                   screen, cycles, exitCode>>

\* The body of a 200 response arrives, or fails to, at one handler reading
\* it, which runs to its end: parse, the JSON and the response.
HandlerBody ==
    /\ pc = "serving"
    /\ \E i \in 1..Len(inflight) :
        /\ inflight[i].at = "body"
        /\ \E u \in {v \in Ups : ~EndsAtDo(v)} :
            /\ code' = inflight[i].code
            /\ codeErr' = inflight[i].err
            /\ up' = u
            /\ fetched' = getBuses(inflight[i].code, u)
            /\ resp' = HandleFetched(getBuses(inflight[i].code, u))
            /\ inflight' = RemoveAt(inflight, i)
    /\ UNCHANGED <<pc, args, doc, parsed, timestring, doubledecker, now, printed,
                   screen, cycles, exitCode>>

Next == Start \/ Once \/ Cycle \/ Sleep \/ HandlerArrive \/ HandlerDo \/ HandlerBody

Spec == Init /\ [][Next]_vars

----------------------------------------------------------------------------
(* The older program gotimetravel (src/main.go): flags -api and -h, a      *)
(* fixed stop reference, no validation, lines of text instead of a table,  *)
(* and a handler that never sets a status.                                 *)

LegacyRef == <<"2", "2", "0", "0", "1", "6", "8", "8">>

\* Bus.String.
BusString(b) ==
    LET head == <<"B", "u", "s", " ">> \o Itoa(b.Service)
                \o <<" ", "g", "o", "i", "n", "g", " ", "t", "o", " ">> \o b.To
    IN IF b.Time = Due THEN head \o <<" ", "i", "s", " ">> \o b.Time
       ELSE IF ContainsAny(b.Time, {":"}) THEN head \o <<" ", "@", " ">> \o b.Time
       ELSE head \o <<" ", "i", "n", " ">> \o b.Time

\* The handler of API(ref) after getBuses: the first write sends status 200,
\* on the error path too.
LegacyHandleFetched(r) ==
    IF r.panic THEN [served |-> TRUE, written |-> FALSE, status |-> 0, body |-> <<>>]
    ELSE IF r.err # "nil"
    THEN [served |-> TRUE, written |-> TRUE, status |-> StatusOK, body |-> Fprintf(unable)]
    ELSE [served |-> TRUE, written |-> TRUE, status |-> StatusOK,
          body |-> Fprintf(jsonMarshal(r.buses))]

LegacyArgs == [api : BOOLEAN, help : BOOLEAN]

LegacyInit ==
    /\ pc = "start"
    /\ args \in {[naptan |-> FALSE, code |-> <<>>, realtime |-> FALSE, api |-> a.api,
                   help |-> a.help] : a \in LegacyArgs}
    /\ now \in ProgNows
    /\ code = <<>> /\ codeErr = "nil" /\ doc = <<>> /\ parsed = NoParsed
    /\ timestring = <<>> /\ doubledecker = FALSE /\ printed = NoPrinted
    /\ up = NoUp /\ fetched = NoFetched /\ resp = NoResp /\ screen = NoScreen
    /\ inflight = <<>> /\ cycles = 0 /\ exitCode = -1

\* main up to its outbound request: -api serves (ListenAndServe blocks), -h
\* prints the flags and exits with status 0.
LegacyStart ==
    /\ pc = "start"
    /\ IF args.api THEN pc' = "serving" /\ UNCHANGED exitCode
       ELSE IF args.help THEN pc' = "exited" /\ exitCode' = 0
       ELSE pc' = "once" /\ UNCHANGED exitCode
    /\ UNCHANGED <<args, code, codeErr, doc, parsed, timestring, doubledecker, now,
                   printed, up, fetched, resp, inflight, screen, cycles>>

\* The rest of main: fetch, exit with status 1 on an error, print one line
\* per bus.
LegacyOnce ==
    /\ pc = "once"
    /\ \E u \in Ups :
        LET r == getBuses(LegacyRef, u)
        IN /\ up' = u
           /\ fetched' = r
           /\ pc' = "exited"
           /\ IF r.panic THEN exitCode' = ExitPanic /\ UNCHANGED screen
              ELSE IF r.err # "nil" THEN exitCode' = ExitFailure /\ UNCHANGED screen
              ELSE /\ exitCode' = 0
                   /\ screen' = [ref |-> LegacyRef,
                                 rows |-> [i \in 1..Len(r.buses) |-> BusString(r.buses[i])]]
    /\ UNCHANGED <<args, code, codeErr, doc, parsed, timestring, doubledecker, now,
                   printed, resp, inflight, cycles>>

\* A request arrives; its handler calls getBuses(ref) and waits in client.Do.
LegacyHandlerArrive ==
    /\ pc = "serving"
    /\ Len(inflight) < MaxInFlight
    /\ inflight' = Append(inflight, [code |-> LegacyRef, err |-> "nil", at |-> "Do"])
    /\ UNCHANGED <<pc, args, code, codeErr, doc, parsed, timestring, doubledecker, now,
                   printed, up, fetched, resp, screen, cycles, exitCode>>

\* client.Do returns to one waiting handler: it answers on a transport
\* failure or a status other than 200, and on a 200 goes on to wait for the
\* body in NewDocumentFromReader.
LegacyHandlerDo ==
    /\ pc = "serving"
    /\ \E i \in 1..Len(inflight) :
        /\ inflight[i].at = "Do"
        /\ \/ \E u \in {v \in Ups : EndsAtDo(v)} :
                /\ up' = u
                /\ fetched' = getBuses(inflight[i].code, u)
                /\ resp' = LegacyHandleFetched(getBuses(inflight[i].code, u))
                /\ inflight' = RemoveAt(inflight, i)
           \/ /\ inflight' = [inflight EXCEPT ![i].at = "body"]
              /\ UNCHANGED <<up, fetched, resp>>
    /\ UNCHANGED <<pc, args, code, codeErr, doc, parsed, timestring, doubledecker, now,
                   printed, screen, cycles, exitCode>>

\* The body of a 200 response arrives, or fails to, at one handler reading
\* it, which parses it and answers.
LegacyHandlerBody ==
    /\ pc = "serving"
    /\ \E i \in 1..Len(inflight) :
        /\ inflight[i].at = "body"
        /\ \E u \in {v \in Ups : ~EndsAtDo(v)} :
            /\ up' = u
            /\ fetched' = getBuses(inflight[i].code, u)
            /\ resp' = LegacyHandleFetched(getBuses(inflight[i].code, u))
            /\ inflight' = RemoveAt(inflight, i)
    /\ UNCHANGED <<pc, args, code, codeErr, doc, parsed, timestring, doubledecker, now,
                   printed, screen, cycles, exitCode>>

LegacyNext == LegacyStart \/ LegacyOnce \/ LegacyHandlerArrive \/ LegacyHandlerDo
              \/ LegacyHandlerBody

SpecLegacy == LegacyInit /\ [][LegacyNext]_vars

----------------------------------------------------------------------------
(* C1: checkCode returns no error exactly for the strings of 8 decimal     *)
(* digits.                                                                 *)
C1_AcceptsExactlyEightDigits ==
    pc = "checked" => (codeErr = "nil" <=> (Len(code) = 8 /\ AllDigits(code)))

(* C6: parse returns one record per row of the first table but its header  *)
(* row, in row order, for every document, also one without tables or rows. *)
FirstTableRows(d) == IF d = <<>> THEN <<>> ELSE Head(d)

DataRows(rows) == IF rows = <<>> THEN <<>> ELSE Tail(rows)

C6_OneRecordPerFirstTableDataRow ==
    pc = "parsed" =>
        LET rows == DataRows(FirstTableRows(doc))
        IN /\ ~parsed.panic
           /\ Len(parsed.buses) = Len(rows)
           /\ \A i \in 1..Len(rows) : parsed.buses[i] = RowBus(rows[i])

(* C9 as stated: a record is not a double decker exactly when the fourth   *)
(* cell of its row reads "Yes"; a missing fourth cell gives a double       *)
(* decker.                                                                 *)
C9_MissingCellIsDoubleDecker ==
    (pc = "parsed" /\ ~parsed.panic) =>
        \A i \in 1..Len(parsed.buses) :
            LET row == AllRows(doc)[i + 1]
            IN parsed.buses[i].DoubleDecker = ~(Len(row) >= 4 /\ row[4] = Yes)

(* C9 amended: a record is a double decker exactly when its row has a      *)
(* fourth cell whose text is not "Yes"; a row with fewer than four cells   *)
(* gives false.                                                            *)
C9_DoubleDeckerIffFourthCellNotYes ==
    (pc = "parsed" /\ ~parsed.panic) =>
        \A i \in 1..Len(parsed.buses) :
            LET row == AllRows(doc)[i + 1]
            IN parsed.buses[i].DoubleDecker = (Len(row) >= 4 /\ row[4] # Yes)

\* A record parsed from a row of three cells, which is no double decker.
C9_Witness ==
    /\ pc = "parsed" /\ ~parsed.panic
    /\ \E i \in 1..Len(parsed.buses) :
        /\ Len(AllRows(doc)[i + 1]) = 3
        /\ ~parsed.buses[i].DoubleDecker

(* C7: for a token without a colon that is a minute count N ("Due" counts  *)
(* as 0), roads = N / 5; when roads <= 0 the bus is drawn right after the  *)
(* first filler with no stop marker, and otherwise the stop marker, roads  *)
(* fillers, the bus and 5 trailing fillers are drawn.                      *)
Count(s, c) == Cardinality({i \in 1..Len(s) : s[i] = c})

Glyph == IF doubledecker THEN VanGlyph ELSE BusGlyph

C7_MinuteTokenRoads ==
    (pc = "printedBus" /\ ~printed.panic) =>
        \A n \in (-MaxMinutes)..MaxMinutes :
            (FirstField(timestring) = MinuteTexts[n] \/ (n = 0 /\ FirstField(timestring) = Due)) =>
                LET r == TruncDiv(n, 5)
                    out == printed.out
                IN /\ printed.roads = r
                   /\ r <= 0 =>
                        /\ Len(out) = 8 /\ out[1] = "_" /\ out[2] = Glyph
                        /\ Count(out, StopGlyph) = 0 /\ Count(out, "_") = 6
                        /\ out[8] = "\r"
                   /\ r > 0 =>
                        /\ Len(out) = r + 9 /\ out[1] = "_" /\ out[2] = StopGlyph
                        /\ \A i \in 3..(r + 2) : out[i] = "_"
                        /\ out[r + 3] = Glyph
                        /\ \A i \in (r + 4)..(r + 8) : out[i] = "_"
                        /\ out[r + 9] = "\r"

C7_Witness ==
    /\ pc = "printedBus" /\ ~printed.panic
    /\ FirstField(timestring) = MinuteTexts[15]
    /\ printed.roads = 3
    /\ Count(printed.out, StopGlyph) = 1

(* C8: for a token HH:MM, roads is the number of whole hours from now to   *)
(* that wall-clock time on the current date, mod 12, on every calendar     *)
(* date (stated where local time is UTC).                                  *)
ClockText(h, m) ==
    (IF h < 10 THEN <<"0">> ELSE <<>>) \o Itoa(h) \o <<":">>
    \o (IF m < 10 THEN <<"0">> ELSE <<>>) \o Itoa(m)

C8_ClockTokenRoads ==
    (pc = "printedBus" /\ ~printed.panic /\ now.off = 0) =>
        \A h \in 0..23, m \in 0..59 :
            FirstField(timestring) = ClockText(h, m) =>
                printed.roads =
                    TruncRem(TruncDiv((h * 3600 + m * 60)
                                      - (now.hour * 3600 + now.minute * 60 + now.second), 3600), 12)

FetchFailed == ~up.sent \/ up.status # StatusOK

(* C2: getBuses returns a non-nil error whenever the request cannot be     *)
(* sent and whenever the upstream status is not 200; records with a nil    *)
(* error come only after a 200 response.                                   *)
C2_FetchFailureGivesError ==
    (fetched.called /\ ~fetched.panic) =>
        /\ FetchFailed => fetched.err # "nil"
        /\ fetched.err = "nil" => (up.sent /\ up.status = StatusOK)

(* C3: the handler answers 400 with the NapTAN error body when validation  *)
(* fails, 400 with the unable-to-fetch body when the fetch fails           *)
(* (transport failure or non-200 status), and 200 in every other case.     *)
C3_HandlerStatus ==
    resp.served =>
        /\ codeErr # "nil" =>
             (resp.written /\ resp.status = 400 /\ resp.body = invalidNaptan)
        /\ (codeErr = "nil" /\ FetchFailed) =>
             (resp.written /\ resp.status = 400 /\ resp.body = unable)
        /\ (codeErr = "nil" /\ ~FetchFailed) =>
             (resp.written /\ resp.status = 200)

(* C4: the body written with a 200 response is exactly the JSON            *)
(* serialization of the records the fetch returned.                        *)
C4_BodyIsJson ==
    (resp.served /\ resp.written /\ resp.status = 200) =>
        resp.body = jsonMarshal(fetched.buses)

(* C5: in realtime mode the loop is left only through a fetch failure, and *)
(* every failed fetch ends the process with status 1 and no table rendered *)
(* for that cycle.                                                         *)
C5_LoopLeftOnlyAndAlwaysByFetchFailure ==
    (args.realtime /\ fetched.called) =>
        /\ pc = "exited" => (FetchFailed /\ exitCode = 1)
        /\ FetchFailed => (pc = "exited" /\ exitCode = 1)

====
